---- MODULE Spec2Model ----
(***************************************************************************)
(* Model of the handover hooks: the background worker                      *)
(* (hooks/handover_worker.py: log parser, Pass 1, Pass 2, run coordinator) *)
(* and the inject hook (hooks/handover_inject.py), over a file system      *)
(* shared by concurrently running processes.                               *)
(***************************************************************************)
EXTENDS Integers, Sequences, FiniteSets, TLC

(***************************************************************************)
(* Bounds of the model.                                                    *)
(***************************************************************************)
\* worker processes (one per launch of handover_worker.py)
NumRuns == 3
\* longest transcript drawn for the parser specification
MaxLines == 4
\* white space put before or after the text of a record of the turn specification
MaxPad == 8
\* most lines after the first boundary in a log of the summary specification
MaxTail == 5
\* longest transcript of the growing-log specification
MaxLog == 5

Runs == 1..NumRuns
\* the worker processes that run concurrently in the coordinator specification
Racing == {1, 2}
Sessions == {"A", "B"}

(***************************************************************************)
(* Strings.  A Python str is modelled run-length encoded: a sequence of    *)
(* runs [c, n], n >= 1, adjacent runs having different characters.  The   *)
(* characters are "x" (any non-space character), " " (white space) and     *)
(* "M" (the characters of the continuation-summary phrase).               *)
(***************************************************************************)
Run1(c, n) == IF n = 0 THEN <<>> ELSE <<[c |-> c, n |-> n]>>

EmptyStr == <<>>

RECURSIVE StrLen(_)
StrLen(s) == IF s = <<>> THEN 0 ELSE Head(s).n + StrLen(Tail(s))

\* s + t
Concat(s, t) ==
    IF s = <<>> THEN t
    ELSE IF t = <<>> THEN s
    ELSE IF s[Len(s)].c = t[1].c
         THEN SubSeq(s, 1, Len(s) - 1)
                \o <<[c |-> t[1].c, n |-> s[Len(s)].n + t[1].n]>>
                \o Tail(t)
         ELSE s \o t

\* s[:k]
RECURSIVE StrTake(_, _)
StrTake(s, k) ==
    IF s = <<>> \/ k <= 0 THEN <<>>
    ELSE IF Head(s).n >= k THEN <<[c |-> Head(s).c, n |-> k]>>
    ELSE <<Head(s)>> \o StrTake(Tail(s), k - Head(s).n)

\* s[-k:], for k >= 1
RECURSIVE StrTakeLast(_, _)
StrTakeLast(s, k) ==
    IF s = <<>> \/ k <= 0 THEN <<>>
    ELSE IF s[Len(s)].n >= k THEN <<[c |-> s[Len(s)].c, n |-> k]>>
    ELSE StrTakeLast(SubSeq(s, 1, Len(s) - 1), k - s[Len(s)].n) \o <<s[Len(s)]>>

IsSpace(c) == c = " "

RECURSIVE LStrip(_)
LStrip(s) == IF s # <<>> /\ IsSpace(Head(s).c) THEN LStrip(Tail(s)) ELSE s

RECURSIVE RStrip(_)
RStrip(s) ==
    IF s # <<>> /\ IsSpace(s[Len(s)].c) THEN RStrip(SubSeq(s, 1, Len(s) - 1)) ELSE s

\* s.strip()
StrStrip(s) == RStrip(LStrip(s))

\* "continued from a previous conversation" (38 characters)
MarkerLen == 38
MarkerPhrase == Run1("M", MarkerLen)

\* "continued from a previous conversation" in s
HasMarker(s) == \E i \in 1..Len(s) : s[i].c = "M" /\ s[i].n >= MarkerLen

\* "\n[...truncated...]"
TruncationMarker == <<[c |-> " ", n |-> 1], [c |-> "x", n |-> 17]>>

(***************************************************************************)
(* Lines of the transcript.  json.loads(line) either raises                *)
(* JSONDecodeError (k = "bad"), or gives a value that is not an object     *)
(* (k = "nonobj"), or gives an object (k = "obj") with the keys type,      *)
(* subtype and message; "" stands for an absent key.  A message is an      *)
(* object with role and content; content is a str (kind "str"), a list of  *)
(* blocks (kind "list"), or absent (kind "absent").                        *)
(***************************************************************************)
NoContent == [kind |-> "absent", text |-> EmptyStr, blocks |-> <<>>]
StrContent(t) == [kind |-> "str", text |-> t, blocks |-> <<>>]
ListContent(bs) == [kind |-> "list", text |-> EmptyStr, blocks |-> bs]
Block(ty, t) == [type |-> ty, text |-> t]

NoMessage == [present |-> FALSE, role |-> "", content |-> NoContent]
Message(role, content) == [present |-> TRUE, role |-> role, content |-> content]

BadLine == [k |-> "bad", type |-> "", subtype |-> "", message |-> NoMessage]
NonObjLine == [k |-> "nonobj", type |-> "", subtype |-> "", message |-> NoMessage]
Obj(ty, sub, msg) == [k |-> "obj", type |-> ty, subtype |-> sub, message |-> msg]

BoundaryLine == Obj("system", "compact_boundary", NoMessage)
UserLine(t) == Obj("user", "", Message("user", StrContent(t)))
AssistantLine(t) == Obj("assistant", "", Message("assistant", StrContent(t)))
ToolUseLine(t) ==
    Obj("assistant", "",
        Message("assistant", ListContent(<<Block("text", t), Block("tool_use", EmptyStr)>>)))

(***************************************************************************)
(* extract_text, has_tool_use                                              *)
(***************************************************************************)
RECURSIVE JoinTextBlocks(_, _)
\* "\n".join(parts), parts the text of the blocks of type "text"
JoinTextBlocks(blocks, first) ==
    IF blocks = <<>> THEN EmptyStr
    ELSE IF Head(blocks).type = "text"
         THEN Concat(IF first THEN EmptyStr ELSE Run1(" ", 1),
                     Concat(Head(blocks).text, JoinTextBlocks(Tail(blocks), FALSE)))
         ELSE JoinTextBlocks(Tail(blocks), first)

extract_text(msg) ==
    IF msg.content.kind = "str" THEN msg.content.text
    ELSE IF msg.content.kind = "list" THEN JoinTextBlocks(msg.content.blocks, TRUE)
    ELSE EmptyStr

\* has_tool_use asking for a content of tool_use blocks only
has_tool_use_only(msg) ==
    /\ msg.content.kind = "list"
    /\ msg.content.blocks # <<>>
    /\ \A i \in 1..Len(msg.content.blocks) : msg.content.blocks[i].type = "tool_use"

has_tool_use(msg) ==
    /\ msg.content.kind = "list"
    /\ \E i \in 1..Len(msg.content.blocks) : msg.content.blocks[i].type = "tool_use"

(***************************************************************************)
(* parse_jsonl.  Positions are 0-based as in the source: line i of the     *)
(* file is lines[i + 1].                                                   *)
(***************************************************************************)
LineAt(lines, i) == lines[i + 1]

\* obj.get("type") == "system" and obj.get("subtype") == "compact_boundary"
IsBoundary(obj) == obj.type = "system" /\ obj.subtype = "compact_boundary"

RECURSIVE ScanBoundaries(_, _)
\* the first loop: the positions of the compact_boundary records, in order
ScanBoundaries(lines, i) ==
    IF i >= Len(lines) THEN <<>>
    ELSE IF LineAt(lines, i).k = "obj" /\ IsBoundary(LineAt(lines, i))
         THEN <<i>> \o ScanBoundaries(lines, i + 1)
         ELSE ScanBoundaries(lines, i + 1)

\* range(last_boundary + 1, min(last_boundary + 5, len(lines)))
Lookahead == 5
Min(a, b) == IF a <= b THEN a ELSE b

RECURSIVE FindSummary_first_user(_, _, _)
\* the second loop stopping at the first user message, with or without the phrase
FindSummary_first_user(lines, i, stop) ==
    IF i >= stop THEN EmptyStr
    ELSE IF LineAt(lines, i).k = "obj" /\ LineAt(lines, i).message.role = "user"
         THEN IF HasMarker(extract_text(LineAt(lines, i).message))
              THEN extract_text(LineAt(lines, i).message)
              ELSE EmptyStr
         ELSE FindSummary_first_user(lines, i + 1, stop)

RECURSIVE FindSummary(_, _, _)
\* the second loop: the text of the first user message in the window that
\* holds the phrase
FindSummary(lines, i, stop) ==
    IF i >= stop THEN EmptyStr
    ELSE LET obj == LineAt(lines, i)
             msg == obj.message
         IN  IF obj.k = "obj" /\ msg.role = "user" /\ HasMarker(extract_text(msg))
             THEN extract_text(msg)
             ELSE FindSummary(lines, i + 1, stop)

\* the range started at the first boundary instead of the second-to-last
StartIdx_first(compact_boundaries) ==
    IF Len(compact_boundaries) >= 2 THEN compact_boundaries[1] ELSE 0

\* if len(compact_boundaries) >= 2: compact_boundaries[-2] else 0
StartIdx(compact_boundaries) ==
    IF Len(compact_boundaries) >= 2
    THEN compact_boundaries[Len(compact_boundaries) - 1]
    ELSE 0

MinUserLen == 10
MaxTurnLen == 2000

\* the truncation applied from the maximum length on
Truncate_from_limit(text) ==
    IF StrLen(text) >= MaxTurnLen
    THEN Concat(StrTake(text, MaxTurnLen), TruncationMarker)
    ELSE text

\* text[:max_len] + "\n[...truncated...]" when len(text) > max_len
Truncate(text) ==
    IF StrLen(text) > MaxTurnLen
    THEN Concat(StrTake(text, MaxTurnLen), TruncationMarker)
    ELSE text

\* the body of the third loop for one line: the turns it appends (none or one)
TurnsOfLine(obj) ==
    IF obj.k # "obj" THEN <<>>
    ELSE IF obj.type \notin {"user", "assistant"} THEN <<>>
    ELSE LET msg  == obj.message
             role == IF msg.role = "" THEN obj.type ELSE msg.role
             text == extract_text(msg)
         IN  IF role = "assistant" /\ has_tool_use(msg) THEN <<>>
             ELSE IF StrStrip(text) = EmptyStr THEN <<>>
             ELSE IF role = "user" /\ StrLen(text) < MinUserLen THEN <<>>
             ELSE <<[role |-> role, text |-> Truncate(text)]>>

RECURSIVE ExtractRange(_, _, _)
\* the third loop: for i in range(start_idx, last_boundary)
ExtractRange(lines, i, stop) ==
    IF i >= stop THEN <<>>
    ELSE TurnsOfLine(LineAt(lines, i)) \o ExtractRange(lines, i + 1, stop)

ParseNone == [status |-> "none", compaction_summary |-> EmptyStr, conversation |-> <<>>]
ParseRaise == [status |-> "raise", compaction_summary |-> EmptyStr, conversation |-> <<>>]

\* status "none" is the return of (None, None); "raise" the AttributeError of
\* obj.get on a line whose JSON value is not an object
parse_jsonl(lines) ==
    IF \E i \in 1..Len(lines) : lines[i].k = "nonobj" THEN ParseRaise
    ELSE LET compact_boundaries == ScanBoundaries(lines, 0)
         IN  IF compact_boundaries = <<>> THEN ParseNone
             ELSE LET last_boundary == compact_boundaries[Len(compact_boundaries)]
                      start_idx == StartIdx(compact_boundaries)
                  IN  [status |-> "ok",
                       compaction_summary |->
                           FindSummary(lines, last_boundary + 1,
                                       Min(last_boundary + Lookahead, Len(lines))),
                       conversation |-> ExtractRange(lines, start_idx, last_boundary)]

(***************************************************************************)
(* pass1_extract: the two files it writes for the generator to read.       *)
(***************************************************************************)
\* f"[{role}]: {text}"
FormatTurn(turn) ==
    Concat(Run1("x", IF turn.role = "user" THEN 7 ELSE 12),
           Concat(Run1(" ", 1), turn.text))

RECURSIVE JoinTurns(_)
\* "\n\n".join(conversation)
JoinTurns(conversation) ==
    IF conversation = <<>> THEN EmptyStr
    ELSE IF Len(conversation) = 1 THEN FormatTurn(conversation[1])
    ELSE Concat(FormatTurn(conversation[1]),
                Concat(Run1(" ", 2), JoinTurns(Tail(conversation))))

MaxTranscriptLen == 150000
MaxSummaryLen == 20000

\* transcript_text, cut to its last 150_000 characters
TranscriptText(conversation) ==
    LET transcript_text == JoinTurns(conversation)
    IN  IF StrLen(transcript_text) > MaxTranscriptLen
        THEN StrTakeLast(transcript_text, MaxTranscriptLen)
        ELSE transcript_text

\* compaction_summary, cut to its first 20_000 characters
SummaryText(compaction_summary) ==
    IF StrLen(compaction_summary) > MaxSummaryLen
    THEN Concat(StrTake(compaction_summary, MaxSummaryLen), TruncationMarker)
    ELSE compaction_summary

(***************************************************************************)
(* Documents.  The text of a handover document or of a generation's        *)
(* output is modelled by what it says: items, the set of pieces of         *)
(* information in it (the fragment distilled by run r says {r}), and ws,   *)
(* whether white space surrounds it.  "" is EmptyText; "  \n" is           *)
(* BlankText.                                                              *)
(***************************************************************************)
Items == Runs

Text(ws, items) == [ws |-> ws, items |-> items]
EmptyText == Text(FALSE, {})
BlankText == Text(TRUE, {})

\* text.strip()
Strip(text) == Text(FALSE, text.items)

\* bool(text): only "" is false
Truthy(text) == text # EmptyText

\* values of type str | None
None == [isNone |-> TRUE, text |-> EmptyText]
Some(text) == [isNone |-> FALSE, text |-> text]

\* bool(v) for v of type str | None
TruthyOpt(v) == ~v.isNone /\ Truthy(v.text)

\* files holding a text
NoFile == [exists |-> FALSE, text |-> EmptyText]
FileOf(text) == [exists |-> TRUE, text |-> text]

(***************************************************************************)
(* The external generation call.  A call ends in one of: the child exits   *)
(* with a return code and an output (kind "exit"), subprocess.run raises   *)
(* TimeoutExpired (kind "timeout"), or it raises another exception, such   *)
(* as the OSError of a missing executable (kind "oserror").                *)
(***************************************************************************)
Exit(rc, out) == [kind |-> "exit", rc |-> rc, out |-> out]
TimedOut == [kind |-> "timeout", rc |-> 0, out |-> EmptyText]
Raised == [kind |-> "oserror", rc |-> 0, out |-> EmptyText]
NoCall == [kind |-> "nocall", rc |-> 0, out |-> EmptyText]

\* the outcomes of a call whose generated document would say `items`
CallResults(items) ==
    { TimedOut, Raised,
      Exit(1, Text(TRUE, items)),
      Exit(0, EmptyText),
      Exit(0, BlankText),
      Exit(0, Text(TRUE, items)) }

\* the failures of a pass the specification names
FailedCall(res) ==
    \/ res.kind = "timeout"
    \/ res.kind = "exit" /\ res.rc # 0
    \/ res.kind = "exit" /\ res.out.items = {}

\* call_claude without the test of the return code
call_claude_any_exit(res) ==
    IF Truthy(Strip(res.out)) THEN Some(Strip(res.out)) ELSE None

\* the value call_claude returns when subprocess.run returns
call_claude(res) ==
    IF res.rc = 0 /\ Truthy(Strip(res.out)) THEN Some(Strip(res.out)) ELSE None

\* Pass 1 distils the conversation of run r into what the fragment says
pass1_items(r) == {r}

\* Pass 2 is asked to merge the two documents, preserving both
pass2_items(existing_handover, new_fragment) ==
    existing_handover.items \cup new_fragment.items

(***************************************************************************)
(* Paths.  Every transcript lies in one directory, so the documents and    *)
(* the error logs beside them are keyed by the session identifier alone.   *)
(***************************************************************************)
Paths == {"t_none", "t_tools", "t_turns", "t_nonobj"}

\* a handover path that does not depend on the session
HandoverPath_shared(sid) == "A"

\* transcript_dir / f"HANDOVER-{session_id}.md"
HandoverPath(sid) == sid
\* transcript_dir / f"HANDOVER-{session_id}.error.log"
ErrorLogPath(sid) == sid
\* Path.home() / ".claude" / f".handover-ready-{session_id}"
ReadyMarkerPath(sid) == sid

LongText == Run1("x", 12)

\* the transcripts of the coordinator specification: one without a
\* boundary, one whose epoch holds tool operations only, one with turns,
\* one with a line that is JSON but no object
FixedLines ==
    [p \in Paths |->
        CASE p = "t_none"   -> <<UserLine(LongText)>>
          [] p = "t_tools"  -> <<ToolUseLine(LongText), BoundaryLine>>
          [] p = "t_turns"  -> <<UserLine(LongText), BoundaryLine>>
          [] p = "t_nonobj" -> <<NonObjLine, UserLine(LongText), BoundaryLine>>]

\* the lines drawn for the parser specification
ShortText == Run1("x", 3)
ParseLines ==
    { BoundaryLine, UserLine(LongText), AssistantLine(ShortText),
      ToolUseLine(LongText), BadLine }

\* the texts drawn for the turn specification: n characters between l and r
\* characters of white space
Padded(l, n, r) == Concat(Run1(" ", l), Concat(Run1("x", n), Run1(" ", r)))

\* lengths around the two thresholds of the parser
TurnLens == {0, 3, MinUserLen - 1, MinUserLen, MinUserLen + 1,
             MaxTurnLen, MaxTurnLen + 1}

TurnTexts == {Padded(l, n, r) : l \in {0, MaxPad}, n \in TurnLens, r \in {0, MaxPad}}

\* the content payloads drawn for the turn specification: plain text, and
\* block lists with and without a tool_use block
TurnContents ==
    {NoContent}
    \cup {StrContent(t) : t \in TurnTexts}
    \cup {ListContent(<<Block("text", t)>>) : t \in TurnTexts}
    \cup {ListContent(<<Block("text", t), Block("tool_use", EmptyStr)>>) : t \in TurnTexts}
    \cup {ListContent(<<Block("tool_result", t), Block("text", t)>>) : t \in TurnTexts}
    \cup {ListContent(<<Block("tool_use", EmptyStr)>>)}

\* the user and assistant records drawn for the turn specification; the
\* message may lack its role key
TurnRecords ==
    {Obj(ty, "", Message(role, c)) :
        ty \in {"user", "assistant"}, role \in {"", "user", "assistant"},
        c \in TurnContents}

\* a text that holds the continuation-summary phrase
MarkerText == Concat(Run1("x", 3), Concat(MarkerPhrase, Run1("x", 2)))

\* the lines drawn after the first boundary for the summary specification
SummaryLines ==
    { UserLine(LongText), UserLine(MarkerText), AssistantLine(MarkerText),
      BadLine, BoundaryLine }

RECURSIVE SeqsUpTo(_, _)
\* the sequences over S of length at most n
SeqsUpTo(S, n) ==
    IF n = 0 THEN {<<>>}
    ELSE LET shorter == SeqsUpTo(S, n - 1)
         IN  shorter \cup {Append(q, x) : q \in shorter, x \in S}

(***************************************************************************)
(* State.                                                                  *)
(***************************************************************************)
VARIABLES
    lines,              \* transcript path -> the lines of the file
    doc,                \* HANDOVER-{session}.md: path -> file
    errlog,             \* HANDOVER-{session}.error.log: path -> entries (<<>>: no file)
    status,             \* ~/.claude/handover-status.json
    marker,             \* ~/.claude/.handover-ready-{session}: path -> exists
    scratch,            \* the work_dir of each run and the files in it
    now,                \* datetime.now(), a logical clock
    pc,                 \* the position of each worker process
    session_id,         \* sys.argv[1] of each run
    transcript_path,    \* sys.argv[2] of each run
    had_handover,       \* handover_path.exists() when the run read it
    existing_handover,  \* locals of main
    parsed,             \* (compaction_summary, conversation) of each run
    new_fragment,
    merged,
    res1,               \* how the Pass 1 call of each run ended
    res2,               \* how the Pass 2 call of each run ended
    trace,              \* history: the effects of each run, in order
    recorded,           \* history: every error-log entry recorded, per log
    lastStatus,         \* history: the arguments of the latest write_status
    inj,                \* the inject hook process: [pc, session_id]
    printed             \* history: the injections printed so far, per session

files == <<lines, doc, errlog, status, marker, scratch, now>>
locals == <<session_id, transcript_path, had_handover, existing_handover, parsed,
            new_fragment, merged, res1, res2>>
history == <<recorded, lastStatus>>
hook == <<inj, printed>>
vars == <<files, pc, locals, trace, history, hook>>

NoStatus == [phase |-> "", step |-> 0, total |-> 0, session_id |-> "",
             updated_at |-> 0, error |-> ""]
\* a file of the work_dir: absent, or holding a value
Absent == [present |-> FALSE]
Holding(v) == [present |-> TRUE, value |-> v]
NoScratch == [exists |-> FALSE, transcript |-> Absent, compaction_summary |-> Absent,
              existing_handover |-> Absent, new_fragment |-> Absent]
InjIdle == [pc |-> "idle", session_id |-> ""]

\* the files a session may find before its first run: no document, or an
\* empty one
InitDocs == {NoFile, FileOf(EmptyText)}

InitRest ==
    /\ errlog = [s \in Sessions |-> <<>>]
    /\ status = NoStatus
    /\ marker = [s \in Sessions |-> FALSE]
    /\ scratch = [r \in Runs |-> NoScratch]
    /\ now = 1
    /\ pc = [r \in Runs |-> "idle"]
    /\ session_id = [r \in Runs |-> ""]
    /\ transcript_path = [r \in Runs |-> ""]
    /\ had_handover = [r \in Runs |-> FALSE]
    /\ existing_handover = [r \in Runs |-> EmptyText]
    /\ parsed = [r \in Runs |-> ParseNone]
    /\ new_fragment = [r \in Runs |-> None]
    /\ merged = [r \in Runs |-> None]
    /\ res1 = [r \in Runs |-> NoCall]
    /\ res2 = [r \in Runs |-> NoCall]
    /\ trace = [r \in Runs |-> <<>>]
    /\ recorded = [s \in Sessions |-> <<>>]
    /\ lastStatus = <<>>
    /\ inj = InjIdle
    /\ printed = [s \in Sessions |-> 0]

Init ==
    /\ lines = FixedLines
    /\ doc \in [Sessions -> InitDocs]
    /\ InitRest

\* the parser specification: every transcript holds the same drawn log
InitParse ==
    /\ \E log \in SeqsUpTo(ParseLines, MaxLines) : lines = [p \in Paths |-> log]
    /\ doc = [s \in Sessions |-> NoFile]
    /\ InitRest

\* the turn specification: the processed range of every transcript is one
\* drawn record, followed by the boundary
InitTurn ==
    /\ \E rec \in TurnRecords : lines = [p \in Paths |-> <<rec, BoundaryLine>>]
    /\ doc = [s \in Sessions |-> NoFile]
    /\ InitRest

\* the summary specification: one turn, a boundary, and a drawn tail
InitSummary ==
    /\ \E tail \in SeqsUpTo(SummaryLines, MaxTail) :
           lines = [p \in Paths |-> <<UserLine(LongText), BoundaryLine>> \o tail]
    /\ doc = [s \in Sessions |-> NoFile]
    /\ InitRest

(***************************************************************************)
(* write_status                                                            *)
(***************************************************************************)
write_status(phase, step, total, sid, error) ==
    [phase |-> phase, step |-> step, total |-> total, session_id |-> sid,
     updated_at |-> now, error |-> error]

\* one step of run r from position `from` to position `to` with effect ev
Goto(r, from, to, ev) ==
    /\ pc[r] = from
    /\ pc' = [pc EXCEPT ![r] = to]
    /\ trace' = [trace EXCEPT ![r] = Append(@, ev)]

\* STATUS_FILE.write_text(...) by run r
WriteStatus(r, phase, step, total, error) ==
    /\ status' = write_status(phase, step, total, session_id[r], error)
    /\ lastStatus' = <<r, phase, step, total, error>>
    /\ now' = now + 1
    /\ UNCHANGED <<lines, doc, errlog, marker, scratch, locals, recorded, hook>>

\* error_log.write_text(f"{datetime.now().isoformat()}: {msg}\n")
ErrorLogAfter(old, entry) == <<entry>>

WriteErrorLog(r, msg) ==
    LET entry == [at |-> now, msg |-> msg]
        path == ErrorLogPath(session_id[r])
    IN  /\ errlog' = [errlog EXCEPT ![path] = ErrorLogAfter(@, entry)]
        /\ recorded' = [recorded EXCEPT ![path] = Append(@, entry)]
        /\ now' = now + 1
        /\ UNCHANGED <<lines, doc, status, marker, scratch, locals, lastStatus, hook>>

\* handover_path.write_text(text)
WriteHandover(r, text) ==
    /\ doc' = [doc EXCEPT ![HandoverPath(session_id[r])] = FileOf(text)]
    /\ UNCHANGED <<lines, errlog, status, marker, scratch, now, locals, history, hook>>

(***************************************************************************)
(* main of handover_worker.py, one action per statement that reads or      *)
(* writes the file system or calls out.                                    *)
(***************************************************************************)
\* the process starts with argv = (session_id, transcript_path)
Launch(r) ==
    \E sid \in Sessions, p \in Paths :
        /\ Goto(r, "idle", "read_existing", "launch")
        /\ session_id' = [session_id EXCEPT ![r] = sid]
        /\ transcript_path' = [transcript_path EXCEPT ![r] = p]
        /\ UNCHANGED <<files, had_handover, existing_handover, parsed,
                       new_fragment, merged, res1, res2, history, hook>>

\* existing_handover = handover_path.read_text() if handover_path.exists() else ""
ReadExisting(r) ==
    LET f == doc[HandoverPath(session_id[r])]
    IN  /\ Goto(r, "read_existing", "parse", "read")
        /\ had_handover' = [had_handover EXCEPT ![r] = f.exists]
        /\ existing_handover' =
               [existing_handover EXCEPT ![r] = IF f.exists THEN f.text ELSE EmptyText]
        /\ UNCHANGED <<files, session_id, transcript_path, parsed, new_fragment,
                       merged, res1, res2, history, hook>>

\* main without the return on an empty conversation
AfterParse_no_turn_check(result) ==
    IF result.status = "raise" THEN "crashed"
    ELSE IF result.status = "none" THEN "returned"
    ELSE "mkdtemp"

\* where main goes after parse_jsonl: the exception leaves the process, the
\* two early returns end it, otherwise the work_dir is made
AfterParse(result) ==
    IF result.status = "raise" THEN "crashed"
    ELSE IF result.status = "none" THEN "returned"
    ELSE IF result.conversation = <<>> THEN "returned"
    ELSE "mkdtemp"

Parse(r) ==
    LET result == parse_jsonl(lines[transcript_path[r]])
    IN  /\ Goto(r, "parse", AfterParse(result), "parse")
        /\ parsed' = [parsed EXCEPT ![r] = result]
        /\ UNCHANGED <<files, session_id, transcript_path, had_handover,
                       existing_handover, new_fragment, merged, res1, res2,
                       history, hook>>

\* work_dir = Path(tempfile.mkdtemp(prefix="handover_"))
Mkdtemp(r) ==
    /\ Goto(r, "mkdtemp", "status_pass1", "mkdtemp")
    /\ scratch' = [scratch EXCEPT ![r] = [NoScratch EXCEPT !.exists = TRUE]]
    /\ UNCHANGED <<lines, doc, errlog, status, marker, now, locals, history, hook>>

\* has_merge = bool(existing_handover)
has_merge(r) == Truthy(existing_handover[r])

WriteStatusPass1(r) ==
    /\ Goto(r, "status_pass1", "pass1", "status:pass1")
    /\ WriteStatus(r, "pass1", IF has_merge(r) THEN 1 ELSE 0,
                   IF has_merge(r) THEN 2 ELSE 0, "")

\* a handler that starts the pipeline again after a timeout
Handler_retry(res) == IF res.kind = "timeout" THEN "status_pass1" ELSE "except_status"

\* where main goes when a call raised: the handler of that exception
Handler(res) == IF res.kind = "timeout" THEN "timeout_status" ELSE "except_status"

\* main merging whenever the document file exists
AfterPass1_if_exists(r, fragment) ==
    IF ~TruthyOpt(fragment) THEN "pass1_failed_status"
    ELSE IF had_handover[r] THEN "status_pass2"
    ELSE "write_first"

\* main never merging: the fragment always replaces the document
AfterPass1_never_merge(r, fragment) ==
    IF ~TruthyOpt(fragment) THEN "pass1_failed_status" ELSE "write_first"

\* where main goes after pass1_extract returned new_fragment
AfterPass1(r, fragment) ==
    IF ~TruthyOpt(fragment) THEN "pass1_failed_status"
    ELSE IF Truthy(existing_handover[r]) THEN "status_pass2"
    ELSE "write_first"

\* new_fragment = pass1_extract(compaction_summary, conversation, work_dir)
Pass1(r) ==
    \E res \in CallResults(pass1_items(r)) :
        /\ Goto(r, "pass1",
                IF res.kind = "exit" THEN AfterPass1(r, call_claude(res))
                ELSE Handler(res),
                "call:pass1")
        /\ scratch' = [scratch EXCEPT
               ![r].transcript = Holding(TranscriptText(parsed[r].conversation)),
               ![r].compaction_summary =
                   Holding(SummaryText(parsed[r].compaction_summary))]
        /\ res1' = [res1 EXCEPT ![r] = res]
        /\ new_fragment' = [new_fragment EXCEPT ![r] =
                               IF res.kind = "exit" THEN call_claude(res) ELSE None]
        /\ UNCHANGED <<lines, doc, errlog, status, marker, now, session_id,
                       transcript_path, had_handover, existing_handover, parsed,
                       merged, res2, history, hook>>

Pass1FailedStatus(r) ==
    /\ Goto(r, "pass1_failed_status", "pass1_failed_log", "status:error")
    /\ WriteStatus(r, "error", 0, 0, "Pass 1 returned no output")

\* the Pass 1 failure branch without its return
Pass1FailedLog_no_return(r) ==
    /\ Goto(r, "pass1_failed_log", "status_done", "errlog")
    /\ WriteErrorLog(r, "Pass 1 failed (no output from claude -p)")

Pass1FailedLog(r) ==
    /\ Goto(r, "pass1_failed_log", "finally", "errlog")
    /\ WriteErrorLog(r, "Pass 1 failed (no output from claude -p)")

WriteStatusPass2(r) ==
    /\ Goto(r, "status_pass2", "pass2", "status:pass2")
    /\ WriteStatus(r, "pass2", 2, 2, "")

\* main reporting done after Pass 2 without writing the document
AfterPass2_no_write(result) == "status_done"

\* where main goes after pass2_merge returned merged
AfterPass2(result) == IF TruthyOpt(result) THEN "write_merged" ELSE "write_fallback"

\* merged = pass2_merge(existing_handover, new_fragment, work_dir)
Pass2(r) ==
    \E res \in CallResults(pass2_items(existing_handover[r], new_fragment[r].text)) :
        /\ Goto(r, "pass2",
                IF res.kind = "exit" THEN AfterPass2(call_claude(res))
                ELSE Handler(res),
                "call:pass2")
        /\ scratch' = [scratch EXCEPT
               ![r].existing_handover = Holding(existing_handover[r]),
               ![r].new_fragment = Holding(new_fragment[r].text)]
        /\ res2' = [res2 EXCEPT ![r] = res]
        /\ merged' = [merged EXCEPT ![r] =
                         IF res.kind = "exit" THEN call_claude(res) ELSE None]
        /\ UNCHANGED <<lines, doc, errlog, status, marker, now, session_id,
                       transcript_path, had_handover, existing_handover, parsed,
                       new_fragment, res1, history, hook>>

\* handover_path.write_text(merged)
WriteMerged(r) ==
    /\ Goto(r, "write_merged", "status_done", "doc")
    /\ WriteHandover(r, merged[r].text)

\* Pass 2 failed: handover_path.write_text(new_fragment)
WriteFallback(r) ==
    /\ Goto(r, "write_fallback", "fallback_log", "doc")
    /\ WriteHandover(r, new_fragment[r].text)

FallbackLog(r) ==
    /\ Goto(r, "fallback_log", "status_done", "errlog")
    /\ WriteErrorLog(r, "Pass 2 failed, saved Pass 1 output only")

\* first compaction: handover_path.write_text(new_fragment)
WriteFirst(r) ==
    /\ Goto(r, "write_first", "status_done", "doc")
    /\ WriteHandover(r, new_fragment[r].text)

WriteStatusDone(r) ==
    /\ Goto(r, "status_done", "ready_marker", "status:done")
    /\ WriteStatus(r, "done", 0, 0, "")

\* ready_marker.write_text(session_id)
WriteReadyMarker(r) ==
    /\ Goto(r, "ready_marker", "finally", "marker")
    /\ marker' = [marker EXCEPT ![ReadyMarkerPath(session_id[r])] = TRUE]
    /\ UNCHANGED <<lines, doc, errlog, status, scratch, now, locals, history, hook>>

\* except subprocess.TimeoutExpired
TimeoutStatus(r) ==
    /\ Goto(r, "timeout_status", "timeout_log", "status:error")
    /\ WriteStatus(r, "error", 0, 0, "claude -p timed out")

TimeoutLog(r) ==
    /\ Goto(r, "timeout_log", "finally", "errlog")
    /\ WriteErrorLog(r, "claude -p timed out")

\* except Exception as e
ExceptStatus(r) ==
    /\ Goto(r, "except_status", "except_log", "status:error")
    /\ WriteStatus(r, "error", 0, 0, "OSError")

\* the handler leaving main without the finally clause
ExceptLog_no_finally(r) ==
    /\ Goto(r, "except_log", "finished", "errlog")
    /\ WriteErrorLog(r, "OSError: OSError")

ExceptLog(r) ==
    /\ Goto(r, "except_log", "finally", "errlog")
    /\ WriteErrorLog(r, "OSError: OSError")

\* finally: shutil.rmtree(work_dir, ignore_errors=True)
Finally(r) ==
    /\ Goto(r, "finally", "finished", "rmtree")
    /\ scratch' = [scratch EXCEPT ![r] = NoScratch]
    /\ UNCHANGED <<lines, doc, errlog, status, marker, now, locals, history, hook>>

\* the positions at which the process of a run has ended
Ended == {"returned", "crashed", "finished"}

(***************************************************************************)
(* main of handover_inject.py                                              *)
(***************************************************************************)
InjFrame == UNCHANGED <<lines, doc, errlog, status, scratch, now, pc, locals,
                        trace, history>>

\* the hook starts on a prompt of session sid
InjStart ==
    \E sid \in Sessions :
        /\ inj.pc = "idle"
        /\ inj' = [pc |-> "check_marker", session_id |-> sid]
        /\ UNCHANGED <<marker, printed>>
        /\ InjFrame

\* the hook going on to the document without the test of the marker
InjCheckMarker_no_test ==
    /\ inj.pc = "check_marker"
    /\ inj' = [inj EXCEPT !.pc = "check_doc"]
    /\ UNCHANGED <<marker, printed>>
    /\ InjFrame

\* if not ready_marker.exists(): return
InjCheckMarker ==
    /\ inj.pc = "check_marker"
    /\ inj' = IF marker[ReadyMarkerPath(inj.session_id)]
              THEN [inj EXCEPT !.pc = "check_doc"]
              ELSE InjIdle
    /\ UNCHANGED <<marker, printed>>
    /\ InjFrame

\* if not handover_path.exists(): (unlink, return) else print(...)
InjCheckDoc ==
    /\ inj.pc = "check_doc"
    /\ inj' = [inj EXCEPT !.pc = "unlink"]
    /\ printed' = IF doc[HandoverPath(inj.session_id)].exists
                  THEN [printed EXCEPT ![inj.session_id] = @ + 1]
                  ELSE printed
    /\ UNCHANGED marker
    /\ InjFrame

\* ready_marker.unlink(missing_ok=True)
InjUnlink ==
    /\ inj.pc = "unlink"
    /\ marker' = [marker EXCEPT ![ReadyMarkerPath(inj.session_id)] = FALSE]
    /\ inj' = InjIdle
    /\ UNCHANGED printed
    /\ InjFrame

(***************************************************************************)
(* Specifications.                                                         *)
(***************************************************************************)
Work(r) ==
    \/ ReadExisting(r) \/ Parse(r) \/ Mkdtemp(r)
    \/ WriteStatusPass1(r) \/ Pass1(r)
    \/ Pass1FailedStatus(r) \/ Pass1FailedLog(r)
    \/ WriteStatusPass2(r) \/ Pass2(r)
    \/ WriteMerged(r) \/ WriteFallback(r) \/ FallbackLog(r) \/ WriteFirst(r)
    \/ WriteStatusDone(r) \/ WriteReadyMarker(r)
    \/ TimeoutStatus(r) \/ TimeoutLog(r) \/ ExceptStatus(r) \/ ExceptLog(r)
    \/ Finally(r)

InjStep == InjStart \/ InjCheckMarker \/ InjCheckDoc \/ InjUnlink

Next == (\E r \in Racing : Launch(r) \/ Work(r)) \/ InjStep

\* any interleaving of two worker processes and the inject hook
Spec == Init /\ [][Next]_vars

\* a run of session "A" starts when every earlier run has ended
LaunchSeq(r) ==
    /\ \A q \in Runs : IF q < r THEN pc[q] \in Ended ELSE pc[q] = "idle"
    /\ Launch(r)
    /\ session_id'[r] = "A"

NextSeq == \E r \in Runs : LaunchSeq(r) \/ Work(r)

\* the runs of one session, executed one after another
SpecSeq == Init /\ [][NextSeq]_vars

NextParse == Launch(1) \/ ReadExisting(1) \/ Parse(1)

\* the parser applied to every log of at most MaxLines lines
SpecParse == InitParse /\ [][NextParse]_vars

\* a run of session "A" starts at any moment
LaunchLive(r) == Launch(r) /\ session_id'[r] = "A"

NextLive == \E r \in Racing : LaunchLive(r) \/ Work(r)

\* two worker processes of one session, interleaved in any way; a started
\* process is not stopped: each of its statements is executed in the end
SpecLive == Init /\ [][NextLive]_vars /\ \A r \in Racing : WF_vars(Work(r))

\* the sessions have no document, an empty one, or one written by an
\* earlier run
InitOverlap ==
    /\ lines = FixedLines
    /\ \E d \in InitDocs \cup {FileOf(Text(FALSE, {NumRuns}))} :
           doc = [s \in Sessions |-> d]
    /\ InitRest

\* two worker processes of one session that may have a document, interleaved
\* in any way
SpecOverlap == InitOverlap /\ [][NextLive]_vars

\* the transcript of the session of the growing-log specification
LivePath == "t_turns"

\* the log starts empty
InitLog ==
    /\ lines = [p \in Paths |-> <<>>]
    /\ doc = [s \in Sessions |-> NoFile]
    /\ InitRest

\* the session appends a user record to its log; the length of the text
\* tells the records apart
AppendRecord ==
    /\ Len(lines[LivePath]) < MaxLog
    /\ lines' = [lines EXCEPT ![LivePath] =
                     Append(@, UserLine(Run1("x", MinUserLen + Len(@))))]
    /\ UNCHANGED <<doc, errlog, status, marker, scratch, now, pc, locals, trace,
                   history, hook>>

\* a compaction appends its boundary record, and the generate hook that
\* fires after it starts a worker process without waiting for it
Compact(r) ==
    /\ Len(lines[LivePath]) < MaxLog
    /\ \A q \in Runs : q < r => pc[q] # "idle"
    /\ Goto(r, "idle", "read_existing", "launch")
    /\ lines' = [lines EXCEPT ![LivePath] = Append(@, BoundaryLine)]
    /\ session_id' = [session_id EXCEPT ![r] = "A"]
    /\ transcript_path' = [transcript_path EXCEPT ![r] = LivePath]
    /\ UNCHANGED <<doc, errlog, status, marker, scratch, now, had_handover,
                   existing_handover, parsed, new_fragment, merged, res1, res2,
                   history, hook>>

NextLog ==
    \/ AppendRecord
    \/ \E r \in Runs : Compact(r) \/ ReadExisting(r) \/ Parse(r)

\* a growing log, one worker per compaction, each reading the log at any
\* later moment
SpecLog == InitLog /\ [][NextLog]_vars

\* the parser applied to every record of the turn specification
SpecTurn == InitTurn /\ [][NextParse]_vars

\* the parser applied to every log of the summary specification
SpecSummary == InitSummary /\ [][NextParse]_vars

(***************************************************************************)
(* Properties.                                                             *)
(***************************************************************************)
\* run r takes the step
Steps(r) == pc'[r] # pc[r]

\* the positions of effect ev in a trace
Occurrences(tr, ev) == {i \in 1..Len(tr) : tr[i] = ev}

StatusEvents == {"status:pass1", "status:pass2", "status:done", "status:error"}

\* the last status phase a run wrote ("" when it wrote none)
LastPhase(tr) ==
    IF \A i \in 1..Len(tr) : tr[i] \notin StatusEvents THEN ""
    ELSE tr[CHOOSE i \in 1..Len(tr) :
                /\ tr[i] \in StatusEvents
                /\ \A j \in (i + 1)..Len(tr) : tr[j] \notin StatusEvents]

\* run r is the latest of the runs executed one after another
Latest(r) == \A q \in Runs : q > r => pc[q] = "idle"

\* run r found a non-empty prior document, its Pass 1 succeeded and its
\* Pass 2 call failed
Pass2Failed(r) ==
    /\ had_handover[r] /\ Truthy(existing_handover[r])
    /\ TruthyOpt(new_fragment[r])
    /\ FailedCall(res2[r])

\* C1: a run that found a non-empty prior document, whose Pass 1 succeeded
\* and whose Pass 2 call failed (empty or blank output, non-zero exit or
\* timeout) ends with the document equal to the Pass 1 fragment, an
\* error-log entry, the status phase done and the readiness marker written.
C1_Pass2FailureKeepsFragment ==
    \A r \in Runs :
        (pc[r] = "finished" /\ Latest(r) /\ Pass2Failed(r)) =>
            /\ doc[HandoverPath(session_id[r])] = FileOf(new_fragment[r].text)
            /\ errlog[ErrorLogPath(session_id[r])] # <<>>
            /\ status.phase = "done"
            /\ marker[ReadyMarkerPath(session_id[r])]

\* C2: once the Pass 1 call of a run has failed (empty or blank output,
\* non-zero exit or timeout), no step of that run changes a document or a
\* readiness marker, and the run ends without having invoked Pass 2, with
\* an entry in the error log and error as the last status phase it wrote.
C2_Pass1FailureWritesNoDocument ==
    [][\A r \in Runs :
          (Steps(r) /\ FailedCall(res1'[r])) =>
              /\ doc' = doc
              /\ marker' = marker
              /\ res2'[r] = NoCall
              /\ pc'[r] \notin {"status_pass2", "pass2", "write_merged",
                                "write_fallback", "write_first", "ready_marker"}
              /\ pc'[r] = "finished" =>
                    /\ errlog'[ErrorLogPath(session_id[r])] # <<>>
                    /\ LastPhase(trace'[r]) = "status:error"]_vars

C2_Witness ==
    \E r \in Runs :
        /\ pc[r] = "finished"
        /\ res1[r] = Exit(0, BlankText)
        /\ had_handover[r] /\ Truthy(existing_handover[r])
        /\ doc[HandoverPath(session_id[r])] = FileOf(existing_handover[r])

\* the merger of run r was invoked with the prior document and the fragment
MergerInputs(r) ==
    /\ scratch'[r].existing_handover = Holding(existing_handover[r])
    /\ scratch'[r].new_fragment = Holding(new_fragment[r].text)

NoBoundary(r) ==
    \A i \in 1..Len(lines[transcript_path[r]]) :
        ~( /\ lines[transcript_path[r]][i].type = "system"
           /\ lines[transcript_path[r]][i].subtype = "compact_boundary" )

\* run r has parsed its log
HasParsed(r) == pc[r] \notin {"idle", "read_existing", "parse"}

\* run r has parsed a log without a boundary, or one whose processed range
\* yields no qualifying turn
NothingToDo(r) ==
    /\ HasParsed(r)
    /\ NoBoundary(r) \/ (parsed[r].status = "ok" /\ parsed[r].conversation = <<>>)

\* C4: a run whose log holds no compaction boundary, or whose processed
\* range yields no qualifying turn, has ended after the parser without an
\* external call and without a scratch directory, and none of its steps
\* changed a document, an error log, the status record, a readiness marker
\* or a scratch directory.
C4_NoOpRunWritesNothing ==
    [][\A r \in Runs :
          /\ (Steps(r) /\ pc[r] \in {"idle", "read_existing", "parse"}) =>
                UNCHANGED <<doc, errlog, status, marker, scratch>>
          /\ NothingToDo(r)' =>
                /\ pc'[r] \in {"returned", "crashed"}
                /\ res1'[r] = NoCall /\ res2'[r] = NoCall
                /\ scratch'[r] = NoScratch]_vars

C4_Witness ==
    \E r, q \in Runs :
        /\ pc[r] = "returned" /\ NoBoundary(r)
        /\ pc[q] = "returned" /\ ~NoBoundary(q) /\ parsed[q].conversation = <<>>

\* effect ev occurs in the trace, and only after an effect before
OnlyAfter(tr, ev, before) ==
    \A i \in Occurrences(tr, ev) : \E j \in Occurrences(tr, before) : j < i

\* C5: whenever the readiness marker of a session exists, so does its
\* handover document; a run writes the marker at most once, and only after
\* it has written the document.
C5_MarkerImpliesDocument ==
    /\ \A s \in Sessions : marker[ReadyMarkerPath(s)] => doc[HandoverPath(s)].exists
    /\ \A r \in Runs :
          /\ Cardinality(Occurrences(trace[r], "marker")) <= 1
          /\ OnlyAfter(trace[r], "marker", "doc")

C5_Witness ==
    \E r \in Runs :
        /\ pc[r] = "finished"
        /\ marker[ReadyMarkerPath(session_id[r])]
        /\ inj.pc = "check_doc" /\ inj.session_id = session_id[r]

\* C6: the error log of a session is append-only: it holds one entry for
\* each failure recorded so far, in order.
C6_ErrorLogAppendOnly ==
    \A s \in Sessions : errlog[ErrorLogPath(s)] = recorded[ErrorLogPath(s)]

\* what a document says is kept by the step
KeepsContent(s) ==
    doc[s].exists => (doc'[s].exists /\ doc[s].text.items \subseteq doc'[s].text.items)

\* C7 as stated: over the runs of one session executed one after another,
\* no step loses what the document said, on any path through a run.
C7_DocumentNeverLosesContent ==
    [][\A s \in Sessions : KeepsContent(s)]_vars

\* the step writes the fragment alone after a failed merge
FallbackStep == \E r \in Runs : Steps(r) /\ pc[r] = "write_fallback"

\* C7 amended: over the runs of one session executed one after another,
\* every step keeps what the document said, except the write after a Pass 2
\* that returned no output (empty or blank output, or a non-zero exit): that
\* write replaces the document by the Pass 1 fragment alone.
C7_DocumentKeptExceptOnFallback ==
    [][\A s \in Sessions :
          /\ ~FallbackStep => KeepsContent(s)
          /\ \A r \in Runs :
                (Steps(r) /\ pc[r] = "write_fallback" /\ s = session_id[r]) =>
                    /\ res2[r].kind = "exit" /\ FailedCall(res2[r])
                    /\ doc'[HandoverPath(s)] = FileOf(new_fragment[r].text)]_vars

C7_Witness ==
    \E r, q \in Runs :
        /\ pc[r] = "finished" /\ pc[q] = "finished" /\ r < q
        /\ TruthyOpt(merged[q])
        /\ doc[HandoverPath("A")].text.items = {r, q}

\* the 0-based positions of the compaction-boundary records of a log
BoundaryPositions(log) ==
    {i \in 0..(Len(log) - 1) :
        log[i + 1].type = "system" /\ log[i + 1].subtype = "compact_boundary"}

Largest(S) == CHOOSE i \in S : \A j \in S : j <= i

\* the last boundary of a log that has one
LastBoundary(log) == Largest(BoundaryPositions(log))

\* the start of the processed range: the second-to-last boundary, or 0
RangeStart(log) ==
    IF Cardinality(BoundaryPositions(log)) >= 2
    THEN Largest(BoundaryPositions(log) \ {LastBoundary(log)})
    ELSE 0

\* the lines of a log at the positions [from, to)
Slice(log, from, to) == SubSeq(log, from + 1, to)

\* the turns of the lines of a log, each line taken by itself
TurnsOf(log) == ExtractRange(log, 0, Len(log))

\* C8: the turns the parser returns are the turns of the records at the
\* positions [0, b) when b is the only boundary, and at the positions
\* [second-to-last boundary, last boundary) when there are two or more;
\* a log cut before its second-to-last boundary, and a log cut after its
\* last boundary, yield the same turns.
C8_RangeIsLastEpoch ==
    \A r \in Runs :
        (HasParsed(r) /\ ~NoBoundary(r)) =>
            LET log == lines[transcript_path[r]]
            IN  /\ parsed[r].status = "ok"
                /\ parsed[r].conversation =
                       TurnsOf(Slice(log, RangeStart(log), LastBoundary(log)))
                /\ parsed[r].conversation =
                       parse_jsonl(Slice(log, RangeStart(log), Len(log))).conversation
                /\ parsed[r].conversation =
                       parse_jsonl(Slice(log, 0, LastBoundary(log) + 1)).conversation

C8_Witness ==
    \E r \in Runs :
        /\ HasParsed(r)
        /\ Cardinality(BoundaryPositions(lines[transcript_path[r]])) >= 2
        /\ parsed[r].conversation # <<>>
        /\ TurnsOf(Slice(lines[transcript_path[r]], 0,
                         RangeStart(lines[transcript_path[r]]))) # <<>>

\* the status record the latest write_status call was to write
LatestStatus ==
    [phase |-> lastStatus'[2], step |-> lastStatus'[3], total |-> lastStatus'[4],
     session_id |-> session_id'[lastStatus'[1]], error |-> lastStatus'[5]]

\* the status record without its time stamp
StatusFields ==
    [phase |-> status'.phase, step |-> status'.step, total |-> status'.total,
     session_id |-> status'.session_id, error |-> status'.error]

\* C9: no step of a run changes the handover document, the error log or
\* the readiness marker of another session, or the scratch directory of
\* another run; the status record always is the whole record of the latest
\* single write.
C9_SessionsDoNotCollide ==
    [][/\ \A r \in Runs :
             Steps(r) =>
                 /\ \A s \in Sessions \ {session_id'[r]} :
                        /\ doc'[HandoverPath(s)] = doc[HandoverPath(s)]
                        /\ errlog'[ErrorLogPath(s)] = errlog[ErrorLogPath(s)]
                        /\ marker'[ReadyMarkerPath(s)] = marker[ReadyMarkerPath(s)]
                 /\ \A q \in Runs \ {r} : scratch'[q] = scratch[q]
       /\ lastStatus' # <<>> => StatusFields = LatestStatus]_vars

C9_Witness ==
    \E r, q \in Runs :
        /\ session_id[r] = "A" /\ session_id[q] = "B"
        /\ pc[r] = "ready_marker" /\ pc[q] = "status_done"
        /\ status.session_id = "A" /\ status.phase = "done"
        /\ doc[HandoverPath("A")] = FileOf(new_fragment[r].text)
        /\ doc[HandoverPath("B")] = FileOf(new_fragment[q].text)

\* C10: a run that has ended has no scratch directory left, on whichever
\* path it ended.
C10_ScratchRemovedAtEnd ==
    \A r \in Runs : pc[r] \in Ended => ~scratch[r].exists

C10_Witness ==
    \E r, q \in Runs :
        /\ pc[r] = "finished" /\ pc[q] = "finished"
        /\ res1[r].kind = "oserror" /\ res1[q].kind = "timeout"
        /\ "mkdtemp" \in {trace[r][i] : i \in 1..Len(trace[r])}
        /\ "mkdtemp" \in {trace[q][i] : i \in 1..Len(trace[q])}

\* the record in the processed range of the log of run r (turn specification)
TheRecord(r) == lines[transcript_path[r]][1]

\* role = msg.get("role", entry_type)
RoleOf(obj) == IF obj.message.role = "" THEN obj.type ELSE obj.message.role

\* the length of the extracted text of a record after trimming
TrimmedLen(obj) == StrLen(StrStrip(extract_text(obj.message)))

\* the record in the processed range of run r contributed a turn
Included(r) == parsed[r].conversation # <<>>

\* C11: a user-role record in the processed range contributes a turn exactly
\* when the trimmed length of its extracted text is 10 or more; a text of 10
\* or more raw characters with fewer than 10 after trimming is excluded.
C11_UserTurnsByTrimmedLength ==
    \A r \in Runs :
        (HasParsed(r) /\ RoleOf(TheRecord(r)) = "user") =>
            (Included(r) <=> TrimmedLen(TheRecord(r)) >= MinUserLen)

\* the content of a record is a block list with a tool-invocation block
HasToolBlock(obj) ==
    /\ obj.message.content.kind = "list"
    /\ "tool_use" \in {obj.message.content.blocks[i].type :
                          i \in 1..Len(obj.message.content.blocks)}

\* C12 as stated: an assistant-role record in the processed range
\* contributes no turn when its block list holds a tool-invocation block,
\* and always contributes a turn when it is pure text, whatever the length
\* of the text.
C12_PureTextAlwaysIncluded ==
    \A r \in Runs :
        (HasParsed(r) /\ RoleOf(TheRecord(r)) = "assistant") =>
            (Included(r) <=> ~HasToolBlock(TheRecord(r)))

\* C12 amended: an assistant-role record in the processed range contributes
\* no turn when its block list holds a tool-invocation block, also when it
\* holds text blocks; a pure-text record contributes a turn exactly when its
\* text is not blank after trimming, however short the text is.
C12_PureTextIncludedUnlessBlank ==
    \A r \in Runs :
        (HasParsed(r) /\ RoleOf(TheRecord(r)) = "assistant") =>
            (Included(r) <=>
                (~HasToolBlock(TheRecord(r)) /\ TrimmedLen(TheRecord(r)) > 0))

C12_Witness ==
    \E r \in Runs :
        /\ HasParsed(r) /\ RoleOf(TheRecord(r)) = "assistant"
        /\ ~HasToolBlock(TheRecord(r))
        /\ TrimmedLen(TheRecord(r)) = 3
        /\ Included(r) /\ parsed[r].conversation[1].role = "assistant"

\* the text of the turn the record of run r contributed
Emitted(r) == parsed[r].conversation[1].text

Phases(tr) == SelectSeq(tr, LAMBDA ev : ev \in StatusEvents)

\* the phase sequences of a complete run
PhaseSequences ==
    { <<"status:pass1", "status:done">>,
      <<"status:pass1", "status:pass2", "status:done">>,
      <<"status:pass1", "status:error">>,
      <<"status:pass1", "status:pass2", "status:error">> }

IsPrefix(p, q) == Len(p) <= Len(q) /\ p = SubSeq(q, 1, Len(p))

\* effect ev is in the trace
Occurs(tr, ev) == Occurrences(tr, ev) # {}

\* C14: the status phases a run writes are, in order, pass1, then pass2 or
\* nothing, then done or error: a run that got past the parser with turns
\* and has ended wrote exactly [pass1, done], [pass1, pass2, done],
\* [pass1, error] or [pass1, pass2, error], and before it has ended a prefix
\* of one of these; pass2 is written only when a prior document exists,
\* done only after the run has written the document, and no phase is
\* written after done or error.
C14_PhaseSequence ==
    \A r \in Runs :
        /\ \E q \in PhaseSequences : IsPrefix(Phases(trace[r]), q)
        /\ (pc[r] = "finished") => Phases(trace[r]) \in PhaseSequences
        /\ (pc[r] \in {"returned", "crashed"}) => Phases(trace[r]) = <<>>
        /\ Occurs(trace[r], "status:pass2") => had_handover[r]
        /\ OnlyAfter(trace[r], "status:done", "doc")

C14_Witness ==
    \E r, q \in Runs :
        /\ pc[r] = "finished" /\ pc[q] = "finished"
        /\ Phases(trace[r]) = <<"status:pass1", "status:pass2", "status:error">>
        /\ Phases(trace[q]) = <<"status:pass1", "status:done">>

\* an exception other than the timeout of a call was raised in run r
RaisedIn(r) ==
    \/ parsed[r].status = "raise"
    \/ res1[r].kind = "oserror"
    \/ res2[r].kind = "oserror"

\* C15: an unexpected exception raised at any step of a run, the parsing of
\* a line that is JSON but no object included, does not leave the run: the
\* run ends through the top-level handler, with an error-log entry recorded
\* and error as the last status phase it wrote.
C15_ExceptionsAreCaught ==
    \A r \in Runs :
        (pc[r] \in Ended /\ RaisedIn(r)) =>
            /\ pc[r] = "finished"
            /\ errlog[ErrorLogPath(session_id[r])] # <<>>
            /\ LastPhase(trace[r]) = "status:error"

\* C17: every started run ends, and makes no retry: the Pass 1 call is made
\* at most once and the Pass 2 call at most once, the Pass 2 call only
\* after a Pass 1 call that returned a fragment, and a run that wrote the
\* phase pass1 and has ended wrote done or error as its last phase.
C17_TerminatesWithoutRetry ==
    /\ [](\A r \in Runs :
             /\ Cardinality(Occurrences(trace[r], "call:pass1")) <= 1
             /\ Cardinality(Occurrences(trace[r], "call:pass2")) <= 1
             /\ OnlyAfter(trace[r], "call:pass2", "call:pass1")
             /\ Occurs(trace[r], "call:pass2") =>
                    (res1[r].kind = "exit" /\ TruthyOpt(new_fragment[r]))
             /\ (pc[r] \in Ended /\ Occurs(trace[r], "status:pass1")) =>
                    LastPhase(trace[r]) \in {"status:done", "status:error"})
    /\ \A r \in Runs : (pc[r] = "read_existing") ~> (pc[r] \in Ended)

C17_Witness ==
    \E r, q \in Runs :
        /\ pc[r] = "finished" /\ pc[q] = "finished"
        /\ LastPhase(trace[r]) = "status:done"
        /\ res2[q].kind = "timeout" /\ LastPhase(trace[q]) = "status:error"

Smallest(S) == CHOOSE i \in S : \A j \in S : i <= j

\* the positions of the user-role records among the 4 records that follow
\* the last boundary of a log
UsersInWindow(log) ==
    {i \in (LastBoundary(log) + 1)..Min(LastBoundary(log) + 4, Len(log) - 1) :
        log[i + 1].k = "obj" /\ log[i + 1].message.role = "user"}

\* those of them whose text holds the continuation-summary phrase
SummariesInWindow(log) ==
    {i \in UsersInWindow(log) : HasMarker(extract_text(log[i + 1].message))}

TextAt(log, i) == extract_text(log[i + 1].message)

InjSteps == inj' # inj

\* the readiness markers the runs of a session have written so far
MarkersWritten(s) ==
    Cardinality({r \in Runs : session_id[r] = s /\ Occurs(trace[r], "marker")})

\* C18: an invocation of the inject hook that finds no marker prints
\* nothing and changes nothing; one that finds the marker prints the path
\* exactly when the document exists, and removes the marker before it ends,
\* whether it printed or not; the injections of a session never outnumber
\* the markers written for it.
C18_MarkerConsumedOnce ==
    [][/\ (InjSteps /\ inj.pc = "check_marker") =>
             /\ inj'.pc = IF marker[ReadyMarkerPath(inj.session_id)]
                          THEN "check_doc" ELSE "idle"
             /\ UNCHANGED <<files, printed>>
       /\ (InjSteps /\ inj.pc = "check_doc") =>
             /\ inj'.pc = "unlink"
             /\ printed'[inj.session_id] = printed[inj.session_id] +
                    (IF doc[HandoverPath(inj.session_id)].exists THEN 1 ELSE 0)
             /\ \A s \in Sessions \ {inj.session_id} : printed'[s] = printed[s]
       /\ (InjSteps /\ inj.pc = "unlink") =>
             /\ inj'.pc = "idle"
             /\ ~marker'[ReadyMarkerPath(inj.session_id)]
             /\ UNCHANGED printed
       /\ (InjSteps /\ inj.pc = "idle") => UNCHANGED <<files, printed>>
       /\ ~InjSteps => UNCHANGED printed
       /\ \A s \in Sessions : printed'[s] <= MarkersWritten(s)']_vars

C18_Witness ==
    \E r, q \in Runs :
        /\ pc[r] = "finished" /\ pc[q] = "finished" /\ r # q
        /\ session_id[r] = "A" /\ session_id[q] = "A"
        /\ MarkersWritten("A") = 2
        /\ printed["A"] = 2
        /\ inj.pc = "idle" /\ ~marker[ReadyMarkerPath("A")]

\* the texts of the turns run r took from its log
Processed(r) == {parsed[r].conversation[i].text : i \in 1..Len(parsed[r].conversation)}

\* the texts of the records of a log before its last boundary
BeforeLastBoundary(log) ==
    {extract_text(log[i + 1].message) :
        i \in {j \in 0..(LastBoundary(log) - 1) : log[j + 1].type = "user"}}

\* the runs that have been started
Started == {r \in Runs : pc[r] # "idle"}

\* C19: with one worker started per compaction and reading the log at any
\* later moment, once every started worker has parsed the log no record was
\* processed by two workers, and every record before the latest boundary
\* was processed by one.
C19_WorkersPartitionLog ==
    (Started # {} /\ \A r \in Started : HasParsed(r)) =>
        /\ \A r, q \in Started : r # q => Processed(r) \cap Processed(q) = {}
        /\ BeforeLastBoundary(lines[LivePath])
               = UNION {Processed(r) : r \in Started}

\* both passes of run r returned a document
BothPassesSucceeded(r) == TruthyOpt(new_fragment[r]) /\ TruthyOpt(merged[r])

\* neither run read a document that the other had written: each was
\* started before the other wrote
Overlapping(r, q) ==
    /\ r \notin existing_handover[q].items
    /\ q \notin existing_handover[r].items

\* C20: when two runs of one session overlap in time and both passes
\* succeed in both, the document on disk after both have ended says what
\* the fragments of both runs say.
C20_NoLostUpdate ==
    \A r, q \in Runs :
        ( /\ r # q /\ session_id[r] = session_id[q]
          /\ pc[r] = "finished" /\ pc[q] = "finished"
          /\ BothPassesSucceeded(r) /\ BothPassesSucceeded(q)
          /\ Overlapping(r, q) ) =>
            {r, q} \subseteq doc[HandoverPath(session_id[r])].text.items

====
